---- MODULE Spec2Model ----
(***************************************************************************)
(* lamatrix: the abstract Generator (src/src/lamatrix/generator.py).       *)
(* Priors are validated at construction, _fit solves the prior-weighted    *)
(* normal equations, evaluate multiplies a design matrix by the current    *)
(* coefficients, and format_significant_figures formats a value and its    *)
(* uncertainty.  Floating-point values are modelled as exact rationals     *)
(* extended with the IEEE specials inf, -inf and nan.                      *)
(***************************************************************************)
EXTENDS Integers, Sequences, FiniteSets, TLC

VARIABLES heap, refs, last

vars == <<heap, refs, last>>

(***************************************************************************)
(* Bounds of the model.                                                    *)
(***************************************************************************)
MaxWidth == 2
MaxSeqLen == 3
MaxPoints == 2
MaxScale == 3

(***************************************************************************)
(* Numbers.  A float is a record [k, n, d]:                                *)
(*   k = "fin"  : the rational n/d, d > 0, in lowest terms                 *)
(*   k = "inf"  : +infinity (n = 1) or -infinity (n = -1)                  *)
(*   k = "nan"  : not-a-number                                             *)
(*   k = "fmax" : the largest finite float (n = 1) or its negative         *)
(*   k = "sqrt" : the square root of the rational n/d                      *)
(***************************************************************************)
Abs(i) == IF i < 0 THEN -i ELSE i

Sign(i) == IF i < 0 THEN -1 ELSE IF i > 0 THEN 1 ELSE 0

RECURSIVE GCD(_, _)
GCD(a, b) == IF b = 0 THEN a ELSE GCD(b, a % b)

Q(n, d) ==
  LET g == GCD(Abs(n), Abs(d))
      s == IF d < 0 THEN -1 ELSE 1
  IN  [k |-> "fin", n |-> (s * n) \div g, d |-> (s * d) \div g]

R(i) == [k |-> "fin", n |-> i, d |-> 1]

Inf == [k |-> "inf", n |-> 1, d |-> 0]

NegInf == [k |-> "inf", n |-> -1, d |-> 0]

NaN == [k |-> "nan", n |-> 0, d |-> 0]

FloatMax == [k |-> "fmax", n |-> 1, d |-> 0]

NegFloatMax == [k |-> "fmax", n |-> -1, d |-> 0]

SqrtOf(q) == [k |-> "sqrt", n |-> q.n, d |-> q.d]

IsFin(x) == x.k = "fin"

\* IEEE addition on the values the fit produces.
Add(a, b) ==
  CASE a.k = "nan" \/ b.k = "nan" -> NaN
    [] a.k = "inf" /\ b.k = "inf" -> IF a.n = b.n THEN a ELSE NaN
    [] a.k = "inf" -> a
    [] b.k = "inf" -> b
    [] a.k = "fmax" -> a
    [] b.k = "fmax" -> b
    [] OTHER -> LET g == GCD(a.d, b.d)
                IN  Q(a.n * (b.d \div g) + b.n * (a.d \div g), (a.d \div g) * b.d)

\* IEEE multiplication (finite values and infinities).
Mul(a, b) ==
  CASE a.k = "nan" \/ b.k = "nan" -> NaN
    [] a.k = "inf" \/ b.k = "inf" ->
         IF a.n = 0 \/ b.n = 0 THEN NaN
         ELSE IF Sign(a.n) = Sign(b.n) THEN Inf ELSE NegInf
    [] OTHER -> LET g == GCD(Abs(a.n), b.d)
                    h == GCD(Abs(b.n), a.d)
                IN  Q((a.n \div g) * (b.n \div h), (a.d \div h) * (b.d \div g))

\* numpy's elementwise division: x/0 is +-inf, 0/0 is nan, x/inf is 0.
Div(a, b) ==
  CASE a.k = "nan" \/ b.k = "nan" -> NaN
    [] a.k = "inf" /\ b.k = "inf" -> NaN
    [] a.k = "inf" -> IF Sign(a.n) * (IF b.n < 0 THEN -1 ELSE 1) > 0 THEN Inf ELSE NegInf
    [] b.k = "inf" -> R(0)
    [] b.n = 0 -> IF a.n = 0 THEN NaN ELSE IF a.n > 0 THEN Inf ELSE NegInf
    [] OTHER -> LET g == GCD(Abs(a.n), Abs(b.n))
                    h == GCD(a.d, b.d)
                IN  Q((a.n \div g) * (b.d \div h), (a.d \div h) * (b.n \div g))

\* x ** 2
Square(a) == Mul(a, a)

\* a fit that reports the variance as fit_sigma (the ** 0.5 forgotten)
Root_Variance(a) == a

\* x ** 0.5 of a non-negative finite value
Root(a) == SqrtOf(a)

\* a right-hand side that keeps what the division produced
nan_to_num_Keep(x) == x

\* np.nan_to_num: nan -> 0, +inf -> largest finite float, -inf -> its negative.
nan_to_num(x) ==
  CASE x.k = "nan" -> R(0)
    [] x.k = "inf" -> IF x.n > 0 THEN FloatMax ELSE NegFloatMax
    [] OTHER -> x

(***************************************************************************)
(* Vectors are sequences of numbers, matrices sequences of rows.           *)
(***************************************************************************)
\* the sequence s with every element evaluated once
Tup(s) == s \o <<>>

RECURSIVE SumSeq(_)
SumSeq(s) == IF s = <<>> THEN R(0) ELSE Add(Head(s), SumSeq(Tail(s)))

RECURSIVE ProdInts(_)
ProdInts(s) == IF s = <<>> THEN 1 ELSE Head(s) * ProdInts(Tail(s))

Rows(X) == Len(X)

\* X.dot(v)
Dot(X, v) == Tup([i \in 1..Len(X) |-> SumSeq([j \in 1..Len(v) |-> Mul(X[i][j], v[j])])])

\* X.T.dot(v), for a matrix of w columns
TDot(X, v, w) == Tup([j \in 1..w |-> SumSeq([i \in 1..Len(X) |-> Mul(X[i][j], v[i])])])

\* X.T.dot(Y), for matrices of w columns
TDotM(X, Y, w) ==
  Tup([j \in 1..w |->
         Tup([l \in 1..w |-> SumSeq([i \in 1..Len(X) |-> Mul(X[i][j], Y[i][l])])])])

\* np.diag(v)
Diag(v) ==
  Tup([i \in 1..Len(v) |-> Tup([j \in 1..Len(v) |-> IF i = j THEN v[i] ELSE R(0)])])

MatAdd(A, B) ==
  Tup([i \in 1..Len(A) |-> Tup([j \in 1..Len(A[i]) |-> Add(A[i][j], B[i][j])])])

Diagonal(A) == Tup([i \in 1..Len(A) |-> A[i][i]])

DropAt(s, p) == Tup([i \in 1..(Len(s) - 1) |-> IF i < p THEN s[i] ELSE s[i + 1]])

Minor(A, r, c) == Tup([i \in 1..(Len(A) - 1) |-> DropAt(DropAt(A, r)[i], c)])

RECURSIVE Det(_)
Det(A) ==
  IF Len(A) = 0 THEN R(1)
  ELSE SumSeq([j \in 1..Len(A) |->
         Mul(IF j % 2 = 1 THEN R(1) ELSE R(-1), Mul(A[1][j], Det(Minor(A, 1, j))))])

\* np.linalg.inv of a non-singular matrix (adjugate over determinant)
Inverse(A) ==
  LET dt == Det(A)
  IN  Tup([i \in 1..Len(A) |-> Tup([j \in 1..Len(A) |->
         Div(Mul(IF (i + j) % 2 = 0 THEN R(1) ELSE R(-1), Det(Minor(A, j, i))), dt)])])

\* np.linalg.solve(A, B) of a non-singular system
Solve(A, B) == Dot(Inverse(A), B)

(***************************************************************************)
(* Python values held by attributes and passed as arguments.               *)
(***************************************************************************)
NoneVal == [tag |-> "None", v |-> <<>>]

\* an attribute that was never assigned: reading it raises AttributeError
Unset == [tag |-> "unset", v |-> <<>>]

\* a float or an int
Scalar(x) == [tag |-> "scalar", v |-> <<x>>]

\* a list or a tuple
List(s) == [tag |-> "list", v |-> s]

NdArray(s) == [tag |-> "ndarray", v |-> s]

\* a value of any other type (a string, a dict, ...)
Other == [tag |-> "other", v |-> <<>>]

\* a shape tuple
Shape(s) == [tag |-> "tuple", v |-> s]

np_zeros(w) == NdArray(Tup([i \in 1..w |-> R(0)]))

\* a broadcast that forgets the scalar
np_ones_only(w, x) == NdArray(Tup([i \in 1..w |-> R(1)]))

\* np.ones(w) * x
np_ones_times(w, x) == NdArray(Tup([i \in 1..w |-> Mul(R(1), x)]))

(***************************************************************************)
(* Generator._validate_priors: the instance after the call, and whether    *)
(* the call raised ValueError.                                             *)
(***************************************************************************)
ValidatePriorMu(self, prior_mu) ==
  IF prior_mu.tag = "None"
  THEN [raised |-> FALSE, self |-> [self EXCEPT !.prior_mu = np_zeros(self.width)]]
  ELSE IF prior_mu.tag = "scalar"
  THEN [raised |-> FALSE,
        self |-> [self EXCEPT !.prior_mu = np_ones_times(self.width, prior_mu.v[1])]]
  ELSE IF prior_mu.tag \in {"list", "ndarray"}
  THEN IF Len(prior_mu.v) = self.width
       THEN [raised |-> FALSE, self |-> [self EXCEPT !.prior_mu = prior_mu]]
       ELSE [raised |-> FALSE, self |-> self]
  ELSE [raised |-> TRUE, self |-> self]

ValidatePriorSigma(self, prior_sigma) ==
  IF prior_sigma.tag = "None"
  THEN [raised |-> FALSE,
        self |-> [self EXCEPT !.prior_sigma = np_ones_times(self.width, Inf)]]
  ELSE IF prior_sigma.tag = "scalar"
  THEN [raised |-> FALSE,
        self |-> [self EXCEPT !.prior_sigma = np_ones_times(self.width, prior_sigma.v[1])]]
  ELSE IF prior_sigma.tag \in {"list", "ndarray"}
  THEN IF Len(prior_sigma.v) = self.width
       THEN [raised |-> FALSE, self |-> [self EXCEPT !.prior_sigma = prior_sigma]]
       ELSE [raised |-> FALSE, self |-> self]
  ELSE [raised |-> TRUE, self |-> self]

validate_priors(self, prior_mu, prior_sigma) ==
  LET m == ValidatePriorMu(self, prior_mu)
  IN  IF m.raised THEN m ELSE ValidatePriorSigma(m.self, prior_sigma)

(***************************************************************************)
(* A concrete generator's constructor: it fixes the width, validates the   *)
(* priors and leaves the fit results unset (None).                         *)
(***************************************************************************)
NewInstance(w) ==
  [width |-> w, prior_mu |-> Unset, prior_sigma |-> Unset, fit_mu |-> Unset,
   fit_sigma |-> Unset, cov |-> Unset, data_shape |-> Unset]

init(w, prior_mu, prior_sigma) ==
  LET r == validate_priors(NewInstance(w), prior_mu, prior_sigma)
  IN  [raised |-> r.raised,
       self |-> [r.self EXCEPT !.fit_mu = NoneVal, !.fit_sigma = NoneVal,
                               !.data_shape = NoneVal]]

(***************************************************************************)
(* State: heap is the sequence of generator instances allocated so far,    *)
(* refs maps the caller's two names (g: the constructed generator, c: the  *)
(* result of g.copy()) to positions of heap (0: not bound), last records   *)
(* the last call: its name, the name it was made through, how it ended,    *)
(* its arguments and what it returned.                                     *)
(***************************************************************************)
NoCall == [op |-> "none", h |-> "g", outcome |-> "ok", args |-> <<>>, result |-> <<>>]

Init ==
  /\ heap = <<>>
  /\ refs = [g |-> 0, c |-> 0]
  /\ last = NoCall

RECURSIVE SeqsOfLen(_, _)
SeqsOfLen(S, n) ==
  IF n = 0 THEN {<<>>}
  ELSE {<<x>> \o s : x \in S, s \in SeqsOfLen(S, n - 1)}

SeqsUpTo(S, n) == UNION {SeqsOfLen(S, m) : m \in 1..n}

\* the arguments a caller may pass for a prior
PriorArgs(values) ==
  {NoneVal, Other}
    \cup {Scalar(x) : x \in values}
    \cup {List(s) : s \in SeqsUpTo(values, MaxSeqLen)}
    \cup {NdArray(s) : s \in SeqsUpTo(values, MaxSeqLen)}

\* nothing has been constructed or called yet
Fresh == refs.g = 0 /\ last.op = "none"

Construct(w, prior_mu, prior_sigma) ==
  /\ Fresh
  /\ LET r == init(w, prior_mu, prior_sigma)
     IN  /\ last' = [op |-> "init", h |-> "g",
                     outcome |-> IF r.raised THEN "ValueError" ELSE "ok",
                     args |-> [width |-> w, prior_mu |-> prior_mu, prior_sigma |-> prior_sigma],
                     result |-> r.self]
         /\ IF r.raised
            THEN UNCHANGED <<heap, refs>>
            ELSE /\ heap' = Append(heap, r.self)
                 /\ refs' = [refs EXCEPT !.g = Len(heap) + 1]

(***************************************************************************)
(* The design matrix is supplied by the concrete generator.  Two families  *)
(* are modelled: a constant basis (every entry 1) and a polynomial basis   *)
(* on the grid x = 1..n (column j holds x^(j-1)).                          *)
(***************************************************************************)
RECURSIVE Power(_, _)
Power(b, e) == IF e = 0 THEN 1 ELSE b * Power(b, e - 1)

Bases == {"ones", "poly"}

design_matrix(basis, n, w) ==
  Tup([i \in 1..n |->
         Tup([j \in 1..w |-> IF basis = "ones" THEN R(1) ELSE R(Power(i, j - 1))])])

\* an n-dimensional array: its shape and its elements in row-major order
Array(shape, flat) == [shape |-> shape, flat |-> flat]

\* np.ones_like(data)
ones_like(data) == Array(data.shape, Tup([i \in 1..Len(data.flat) |-> R(1)]))

\* s[mask] for a boolean mask over the elements of s
RECURSIVE Select(_, _)
Select(s, mask) ==
  IF s = <<>> THEN <<>>
  ELSE (IF Head(mask) THEN <<Head(s)>> ELSE <<>>) \o Select(Tail(s), Tail(mask))

\* the prior's contribution to the right-hand side: nan_to_num(prior_mu / prior_sigma**2)
PriorTerm(prior_mu, prior_sigma) ==
  Tup([j \in 1..Len(prior_mu) |-> nan_to_num(Div(prior_mu[j], Square(prior_sigma[j])))])

\* B = X[mask].T.dot(data/errors**2) + nan_to_num(prior_mu / prior_sigma**2)
RightHandSide(XtWy, prior_mu, prior_sigma) ==
  LET t == PriorTerm(prior_mu, prior_sigma)
  IN  Tup([j \in 1..Len(XtWy) |-> Add(XtWy[j], t[j])])

(***************************************************************************)
(* Generator._fit: how the call ended, the instance as the call left it,   *)
(* and the pair (fit_mu, fit_sigma) it returns.                            *)
(***************************************************************************)
FitRaise(exc, self) == [outcome |-> exc, self |-> self, fit_mu |-> <<>>, fit_sigma |-> <<>>]

fit_(self, X, data, errors0, mask0) ==
  IF ProdInts(data.shape) # Rows(X) THEN FitRaise("ValueError", self)
  ELSE
    LET errors == IF errors0.tag = "None" THEN ones_like(data) ELSE errors0.v
        mask == IF mask0.tag = "None" THEN Tup([i \in 1..ProdInts(data.shape) |-> TRUE])
                ELSE mask0.v
        self1 == [self EXCEPT !.data_shape = Shape(data.shape)]
        Xm == Select(X, mask)
        em == Select(errors.flat, mask)
        dm == Select(data.flat, mask)
        w == self.width
        XtWX == TDotM(Xm, Tup([i \in 1..Len(Xm) |-> Tup([j \in 1..w |->
                                 Div(Xm[i][j], Square(em[i]))])]), w)
    IN
    IF self.prior_sigma.tag = "unset" THEN FitRaise("AttributeError", self1)
    ELSE IF self.prior_sigma.tag = "list" THEN FitRaise("TypeError", self1)
    ELSE
      LET sigma_w_inv ==
            MatAdd(XtWX,
                   Diag(Tup([j \in 1..w |-> Div(R(1), Square(self.prior_sigma.v[j]))])))
      IN
      IF Det(sigma_w_inv) = R(0) THEN FitRaise("LinAlgError", self1)
      ELSE
        LET self2 == [self1 EXCEPT !.cov = NdArray(Inverse(sigma_w_inv))]
        IN
        IF self.prior_mu.tag = "unset" THEN FitRaise("AttributeError", self2)
        ELSE
          LET B == RightHandSide(
                     TDot(Xm, Tup([i \in 1..Len(Xm) |-> Div(dm[i], Square(em[i]))]), w),
                     self.prior_mu.v, self.prior_sigma.v)
          IN  [outcome |-> "ok", self |-> self2,
               fit_mu |-> Solve(sigma_w_inv, B),
               fit_sigma |-> Tup([j \in 1..w |-> Root(Diagonal(self2.cov.v)[j])])]

\* a concrete generator's fit: self.fit_mu, self.fit_sigma = self._fit(...)
fit(self, X, data, errors, mask) ==
  LET r == fit_(self, X, data, errors, mask)
  IN  [outcome |-> r.outcome,
       self |-> IF r.outcome = "ok"
                THEN [r.self EXCEPT !.fit_mu = NdArray(r.fit_mu),
                                    !.fit_sigma = NdArray(r.fit_sigma)]
                ELSE r.self]

(***************************************************************************)
(* Generator.mu, Generator.sigma, Generator.evaluate,                      *)
(* Generator.table_properties, Generator.copy                              *)
(***************************************************************************)
\* coefficients that ignore the fit
mu_PriorOnly(self) == self.prior_mu

mu(self) == IF self.fit_mu.tag = "None" THEN self.prior_mu ELSE self.fit_mu

sigma(self) == IF self.fit_sigma.tag = "None" THEN self.prior_sigma ELSE self.fit_sigma

evaluate(self, X) ==
  IF mu(self).tag = "unset"
  THEN [outcome |-> "AttributeError", value |-> Array(<<>>, <<>>)]
  ELSE IF self.data_shape.tag # "None" /\ Rows(X) = ProdInts(self.data_shape.v)
  THEN [outcome |-> "ok", value |-> Array(self.data_shape.v, Dot(X, mu(self).v))]
  ELSE [outcome |-> "ok", value |-> Array(<<Rows(X)>>, Dot(X, mu(self).v))]

table_properties(self) ==
  IF \E a \in {mu(self), sigma(self), self.prior_mu, self.prior_sigma} : a.tag = "unset"
  THEN [outcome |-> "AttributeError", value |-> <<>>]
  ELSE [outcome |-> "ok",
        value |-> Tup([idx \in 1..self.width |->
                     [fit |-> <<mu(self).v[idx], sigma(self).v[idx]>>,
                      prior |-> <<self.prior_mu.v[idx], self.prior_sigma.v[idx]>>]])]

\* a copy that returns the instance itself
copy_Alias(hp, id) == [heap |-> hp, ref |-> id]

\* deepcopy(self): a new instance holding copies of every attribute
copy(hp, id) == [heap |-> Append(hp, hp[id]), ref |-> Len(hp) + 1]

(***************************************************************************)
(* The calls a caller makes through one of its two names.                  *)
(***************************************************************************)
Bound(h) == refs[h] # 0

Fit(h, X, data, errors, mask) ==
  /\ Bound(h)
  /\ LET r == fit(heap[refs[h]], X, data, errors, mask)
     IN  /\ heap' = [heap EXCEPT ![refs[h]] = r.self]
         /\ last' = [op |-> "fit", h |-> h, outcome |-> r.outcome,
                     args |-> [X |-> X, data |-> data, errors |-> errors, mask |-> mask],
                     result |-> <<>>]
  /\ UNCHANGED refs

Evaluate(h, X) ==
  /\ Bound(h)
  /\ LET r == evaluate(heap[refs[h]], X)
     IN  last' = [op |-> "evaluate", h |-> h, outcome |-> r.outcome,
                  args |-> [X |-> X], result |-> r.value]
  /\ UNCHANGED <<heap, refs>>

TableProperties(h) ==
  /\ Bound(h)
  /\ LET r == table_properties(heap[refs[h]])
     IN  last' = [op |-> "table_properties", h |-> h, outcome |-> r.outcome,
                  args |-> <<>>, result |-> r.value]
  /\ UNCHANGED <<heap, refs>>

Copy ==
  /\ Bound("g")
  /\ ~Bound("c")
  /\ LET r == copy(heap, refs.g)
     IN  /\ heap' = r.heap
         /\ refs' = [refs EXCEPT !.c = r.ref]
  /\ last' = [op |-> "copy", h |-> "g", outcome |-> "ok", args |-> <<>>, result |-> <<>>]

(***************************************************************************)
(* Inputs.                                                                 *)
(***************************************************************************)
Handles == {"g", "c"}

\* the data 1, 3, 5, ... of m points
Ramp(m) == Tup([i \in 1..m |-> R(2 * i - 1)])

\* data of m points, as a vector or as an m-by-1 array
RampData ==
  UNION {{Array(<<m>>, Ramp(m)), Array(<<m, 1>>, Ramp(m))} : m \in 1..MaxPoints}

ConstructSome ==
  /\ Fresh
  /\ \E w \in 1..MaxWidth :
       \E prior_mu \in {NoneVal, NdArray(<<R(1)>>)} :
         \E prior_sigma \in {NoneVal, Scalar(R(1))} :
           Construct(w, prior_mu, prior_sigma)

FitSome ==
  \E h \in Handles : \E basis \in Bases : \E n \in 1..MaxPoints : \E data \in RampData :
    Bound(h) /\ Fit(h, design_matrix(basis, n, heap[refs[h]].width), data, NoneVal, NoneVal)

EvaluateSome ==
  \E h \in Handles : \E basis \in Bases : \E n \in 1..MaxPoints :
    Bound(h) /\ Evaluate(h, design_matrix(basis, n, heap[refs[h]].width))

TablePropertiesSome == \E h \in Handles : TableProperties(h)

Next == ConstructSome \/ FitSome \/ EvaluateSome \/ TablePropertiesSome

\* the life of one generator: construction, then fits, evaluations and reports
Spec == Init /\ [][Next]_vars

(***************************************************************************)
(* A generator and its copy, each fitted through its own name.             *)
(***************************************************************************)
ConstructFew ==
  /\ Fresh
  /\ \E w \in 1..MaxWidth :
       \E prior_mu \in {NoneVal, Scalar(R(1))} :
         \E prior_sigma \in {NoneVal, Scalar(R(1))} : Construct(w, prior_mu, prior_sigma)

FitFew ==
  \E h \in Handles : \E basis \in Bases :
    \E data \in {Array(<<MaxPoints>>, Ramp(MaxPoints)), Array(<<MaxPoints, 1>>, Ramp(MaxPoints))} :
      Bound(h) /\ Fit(h, design_matrix(basis, MaxPoints, heap[refs[h]].width), data,
                      NoneVal, NoneVal)

NextCopy == ConstructFew \/ Copy \/ FitFew

SpecCopy == Init /\ [][NextCopy]_vars

(***************************************************************************)
(* The first fit of a generator, over every kind of data, errors and mask. *)
(***************************************************************************)
DataValues == {R(1), R(2), R(4)}

DataVectors == SeqsUpTo(DataValues, MaxPoints) \cup {<<R(1), R(2), R(3), R(4), R(5)>>}

\* errors: the default, the same error 2 at every point, or errors 1, 2, 1, 2, ...
ErrorsFor(data) ==
  {NoneVal,
   NdArray(Array(data.shape, Tup([i \in 1..Len(data.flat) |-> R(2)]))),
   NdArray(Array(data.shape, Tup([i \in 1..Len(data.flat) |-> R(2 - (i % 2))])))}

\* masks: the default, or one that leaves out the first point
MasksFor(data) == {NoneVal, NdArray(Tup([i \in 1..Len(data.flat) |-> i # 1]))}

ConstructForFit ==
  /\ Fresh
  /\ \E w \in 1..MaxWidth :
       \E prior_mu \in {NoneVal, Scalar(R(1))} :
         \E prior_sigma \in {NoneVal, Scalar(Inf), Scalar(R(2)), List(<<Inf>>), NdArray(<<Inf>>)} :
           Construct(w, prior_mu, prior_sigma)

FirstFit ==
  /\ Bound("g")
  /\ last.op = "init"
  /\ \E basis \in Bases : \E flat \in DataVectors :
       LET data == Array(<<Len(flat)>>, flat)
       IN  \E errors \in ErrorsFor(data) : \E mask \in MasksFor(data) :
             Fit("g", design_matrix(basis, Len(flat), heap[refs.g].width), data, errors, mask)

NextFit == ConstructForFit \/ FirstFit

SpecFit == Init /\ [][NextFit]_vars

\* construction with every kind of prior argument
ConstructAny ==
  /\ Fresh
  /\ \E w \in 1..MaxWidth :
       \E prior_mu \in PriorArgs({R(0), R(1)}) :
         \E prior_sigma \in PriorArgs({R(0), R(1), Inf}) :
           Construct(w, prior_mu, prior_sigma)

NextPriors == ConstructAny

SpecPriors == Init /\ [][NextPriors]_vars

(***************************************************************************)
(* Generator.format_significant_figures.  A formatted number is the record *)
(* of its sign, its digits read as an integer, and its number of decimal   *)
(* places: "1.23" is [neg FALSE, units 123, decimals 2], "0" is            *)
(* [neg FALSE, units 0, decimals 0].                                       *)
(***************************************************************************)
Text(t) == [text |-> t, neg |-> FALSE, units |-> 0, decimals |-> 0]

Fixed(neg, units, decimals) ==
  [text |-> "fixed", neg |-> neg, units |-> units, decimals |-> decimals]

\* the placeholder pair ("0", "\\infty")
Placeholder == <<Fixed(FALSE, 0, 0), Text("\\infty")>>

isinf(x) == x.k = "inf"

isnan(x) == x.k = "nan"

\* a test that looks at the error only
IsInfOrNan_ErrorOnly(mean, error) == isinf(error) \/ isnan(error)

\* the test of lines 72-77
IsInfOrNan(mean, error) == isinf(mean) \/ isinf(error) \/ isnan(mean) \/ isnan(error)

\* floor(log10(n/d)) for n/d >= 1
RECURSIVE FloorLog10Big(_, _)
FloorLog10Big(n, d) == IF n >= 10 * d THEN 1 + FloorLog10Big(n, 10 * d) ELSE 0

\* floor(log10(n/d)) for 0 < n/d < 1
RECURSIVE FloorLog10Small(_, _)
FloorLog10Small(n, d) == IF 10 * n >= d THEN -1 ELSE FloorLog10Small(10 * n, d) - 1

\* int(math.floor(math.log10(abs(x)))) of a finite x # 0
FloorLog10Abs(x) ==
  IF Abs(x.n) >= x.d THEN FloorLog10Big(Abs(x.n), x.d) ELSE FloorLog10Small(Abs(x.n), x.d)

RECURSIVE IsPowerOfTwo(_)
IsPowerOfTwo(d) == d = 1 \/ (d % 2 = 0 /\ IsPowerOfTwo(d \div 2))

\* f"{x:.{p}f}" for p >= 0.  A float that is a binary fraction is rounded half to
\* even; a decimal that lies halfway is stored as a float slightly above or
\* below it, and tieUp says which.
FormatFixed(x, p, tieUp) ==
  IF isnan(x) THEN Text("nan")
  ELSE IF isinf(x) THEN Text(IF x.n > 0 THEN "inf" ELSE "-inf")
  ELSE
    LET a == Abs(x.n) * Power(10, p)
        q == a \div x.d
        rem == a % x.d
        up == IF 2 * rem > x.d THEN TRUE
              ELSE IF 2 * rem < x.d THEN FALSE
              ELSE IF IsPowerOfTwo(x.d) THEN q % 2 = 1
              ELSE tieUp
    IN  Fixed(x.n < 0, IF up THEN q + 1 ELSE q, p)

format_significant_figures(mean, error, tieUp) ==
  IF IsInfOrNan(mean, error) THEN [outcome |-> "ok", value |-> Placeholder]
  ELSE
    LET sig_figures == IF error = R(0) THEN 0 ELSE -FloorLog10Abs(error)
    IN  IF sig_figures < 0 THEN [outcome |-> "ValueError", value |-> <<>>]
        ELSE [outcome |-> "ok",
              value |-> <<FormatFixed(mean, sig_figures, tieUp),
                          FormatFixed(error, sig_figures, tieUp)>>]

Specials == {Inf, NegInf, NaN}

Mantissas == {0, 1, 5, 14, 34, 96, 125, 200}

Decimals == {Q(m, Power(10, e)) : m \in Mantissas, e \in 0..MaxScale}

Means == Specials \cup {Q(123456, 100000), R(0), R(-3), Q(5, 2), Q(15, 1000), Q(-1, 8)}

Errors == Specials \cup Decimals \cup {Q(-34, 1000), R(-5)}

FormatSignificantFigures ==
  /\ last.op = "none"
  /\ \E mean \in Means : \E error \in Errors : \E tieUp \in BOOLEAN :
       LET r == format_significant_figures(mean, error, tieUp)
       IN  last' = [op |-> "format", h |-> "g", outcome |-> r.outcome,
                    args |-> [mean |-> mean, error |-> error], result |-> r.value]
  /\ UNCHANGED <<heap, refs>>

NextFormat == FormatSignificantFigures

SpecFormat == Init /\ [][NextFormat]_vars

(***************************************************************************)
(* The right-hand side B of the normal equations (lines 138-140), formed   *)
(* for every prior, a prior_sigma of exactly 0 included.  With such a      *)
(* prior the matrix of the normal equations holds an infinite entry and    *)
(* what np.linalg.inv and np.linalg.solve return for it is not modelled,   *)
(* so B is formed on its own here.                                         *)
(***************************************************************************)
FormRightHandSide ==
  /\ last.op = "none"
  /\ \E w \in 1..MaxWidth :
       \E prior_mu \in SeqsOfLen({R(-1), R(0), R(1)}, w) :
         \E prior_sigma \in SeqsOfLen({R(0), R(2), Inf}, w) :
           \E XtWy \in SeqsOfLen({R(0), R(3)}, w) :
             last' = [op |-> "rhs", h |-> "g", outcome |-> "ok",
                      args |-> [prior_mu |-> prior_mu, prior_sigma |-> prior_sigma,
                                XtWy |-> XtWy],
                      result |-> [prior |-> PriorTerm(prior_mu, prior_sigma),
                                  B |-> RightHandSide(XtWy, prior_mu, prior_sigma)]]
  /\ UNCHANGED <<heap, refs>>

NextRhs == FormRightHandSide

SpecRhs == Init /\ [][NextRhs]_vars

(***************************************************************************)
(* Properties                                                              *)
(***************************************************************************)
WrongLength(arg, w) == arg.tag \in {"list", "ndarray"} /\ Len(arg.v) # w

\* C1 (as claimed): validation raises an invalid-argument error for every
\* prior_mu or prior_sigma that is a sequence of a length other than width or a
\* value of any other type; it never returns normally in those cases.
C1_InvalidPriorRaises ==
  (/\ last.op = "init"
   /\ \E arg \in {last.args.prior_mu, last.args.prior_sigma} :
        WrongLength(arg, last.args.width) \/ arg.tag = "other")
    => last.outcome = "ValueError"

\* C2 (as claimed): a fit that fails with a shape mismatch or a linear-algebra
\* failure leaves data_shape, cov, fit_mu and fit_sigma of the instance as they were.
C2_FailedFitLeavesNoState ==
  [][(last'.op = "fit" /\ last'.outcome \in {"ValueError", "LinAlgError"})
       => \A f \in {"data_shape", "cov", "fit_mu", "fit_sigma"} :
            heap'[refs[last'.h]][f] = heap[refs[last'.h]][f]]_vars

\* the coefficients evaluation uses: the fit result when present, else the prior
Resolved(fitted, prior) == IF fitted.tag # "None" THEN fitted ELSE prior

C4_ReshapedIffFitted ==
  (last.op = "evaluate" /\ last.outcome = "ok") =>
    LET self == heap[refs[last.h]]
        fitted == self.fit_mu.tag # "None"
    IN  last.result.shape =
          IF fitted /\ Rows(last.args.X) = ProdInts(self.data_shape.v)
          THEN self.data_shape.v
          ELSE <<Rows(last.args.X)>>

BothFinite == IsFin(last.args.mean) /\ IsFin(last.args.error)

\* C5 (as claimed): for every finite mean and error, format_significant_figures
\* returns both values with the same number of decimal places, -floor(log10|error|),
\* and 0 decimal places when the error is exactly 0.
C5_DecimalsFollowError ==
  (last.op = "format" /\ BothFinite) =>
    /\ last.outcome = "ok"
    /\ \A i \in 1..2 :
         last.result[i].decimals =
           IF last.args.error = R(0) THEN 0 ELSE -FloorLog10Abs(last.args.error)

\* C6: whenever the mean or the error is +infinity, -infinity or not-a-number,
\* format_significant_figures returns the placeholder pair ("0", "\\infty") and
\* does not raise, whatever the other argument is.
C6_PlaceholderForInfNan ==
  (last.op = "format" /\ (last.args.mean \in Specials \/ last.args.error \in Specials))
    => (last.outcome = "ok" /\ last.result = <<Fixed(FALSE, 0, 0), Text("\\infty")>>)

C6_Witness ==
  /\ last.op = "format"
  /\ last.args.mean = NaN
  /\ IsFin(last.args.error)
  /\ last.args.error.n >= 10 * last.args.error.d
  /\ last.result = <<Fixed(FALSE, 0, 0), Text("\\infty")>>

\* a fit of a one-column design matrix of ones with an uninformative prior, every
\* point included, that returned
OlsOfOnes ==
  /\ last.op = "fit"
  /\ last.outcome = "ok"
  /\ heap[refs.g].width = 1
  /\ last.args.X = [i \in 1..Len(last.args.X) |-> <<R(1)>>]
  /\ last.args.mask.tag = "None"
  /\ \A j \in 1..Len(heap[refs.g].prior_sigma.v) : heap[refs.g].prior_sigma.v[j] = Inf

\* the error of every point, when all points have the same one
UniformError ==
  IF last.args.errors.tag = "None" THEN R(1) ELSE last.args.errors.v.flat[1]

ErrorsUniform ==
  \/ last.args.errors.tag = "None"
  \/ \A i \in 1..Len(last.args.errors.v.flat) :
       last.args.errors.v.flat[i] = last.args.errors.v.flat[1]

Neg(a) == IF a.k = "nan" THEN a ELSE [a EXCEPT !.n = -a.n]

Sub(a, b) == Add(a, Neg(b))

SampleMean(d) == Div(SumSeq(d), R(Len(d)))

\* the sum of squared deviations from the mean
SumSqDev(d) == SumSeq([i \in 1..Len(d) |-> Square(Sub(d[i], SampleMean(d)))])

\* C7 (as claimed): for a single column of ones, uniform errors and an uninformative
\* prior, the fitted mean is the sample mean of the data and fit_sigma is the
\* standard error of the data: its standard deviation (with either normalisation,
\* n or n - 1) over the square root of the number of points.
C7_SigmaIsStandardError ==
  (OlsOfOnes /\ ErrorsUniform) =>
    LET d == last.args.data.flat
        n == Len(d)
    IN  /\ heap[refs.g].fit_mu.v = <<SampleMean(d)>>
        /\ \/ heap[refs.g].fit_sigma.v = <<SqrtOf(Div(SumSqDev(d), R(n * n)))>>
           \/ n > 1 /\ heap[refs.g].fit_sigma.v = <<SqrtOf(Div(SumSqDev(d), R(n * (n - 1))))>>

\* C7 (amended): for a single column of ones, uniform errors e and an uninformative
\* prior, the fitted mean is the sample mean of the data and fit_sigma is e over
\* the square root of the number of points, whatever the scatter of the data.
C7_MeanAndErrorOverRootN ==
  (OlsOfOnes /\ ErrorsUniform) =>
    LET d == last.args.data.flat
    IN  /\ heap[refs.g].fit_mu.v = <<SampleMean(d)>>
        /\ heap[refs.g].fit_sigma.v = <<SqrtOf(Div(Square(UniformError), R(Len(d))))>>

C7_Witness ==
  /\ OlsOfOnes
  /\ last.args.data.flat = <<R(1), R(2), R(3), R(4), R(5)>>
  /\ last.args.errors.tag = "None"
  /\ heap[refs.g].fit_mu.v = <<R(3)>>
  /\ heap[refs.g].fit_sigma.v = <<SqrtOf(Q(1, 5))>>

\* C8: a fit made through the copy leaves every attribute of the original as it
\* was, and a fit made through the original leaves the copy as it was.
C8_CopyIsIndependent ==
  [][(last'.op = "fit" /\ Bound("g") /\ Bound("c"))
       => /\ last'.h = "c" => heap'[refs.g] = heap[refs.g]
          /\ last'.h = "g" => heap'[refs.c] = heap[refs.c]]_vars

C8_Witness ==
  /\ Bound("c")
  /\ last.op = "fit"
  /\ last.h = "c"
  /\ last.outcome = "ok"
  /\ heap[refs.g].fit_mu.tag = "None"
  /\ heap[refs.c].fit_mu.tag = "ndarray"
  /\ heap[refs.c].prior_sigma = heap[refs.g].prior_sigma

\* C9: when validation returns, prior_mu=None has stored width zeros, prior_sigma=None
\* width infinities, and a scalar argument width entries equal to that scalar.
C9_DefaultsAndBroadcast ==
  (last.op = "init" /\ last.outcome = "ok") =>
    LET w == last.args.width
        Stored(arg, attr, default) ==
          /\ arg.tag = "None" => attr = NdArray([i \in 1..w |-> default])
          /\ arg.tag = "scalar" => attr = NdArray([i \in 1..w |-> arg.v[1]])
    IN  /\ Stored(last.args.prior_mu, last.result.prior_mu, R(0))
        /\ Stored(last.args.prior_sigma, last.result.prior_sigma, Inf)

C9_Witness ==
  /\ last.op = "init"
  /\ last.outcome = "ok"
  /\ last.args.width = MaxWidth
  /\ last.args.prior_mu.tag = "None"
  /\ last.args.prior_sigma = Scalar(R(1))
  /\ heap[refs.g].prior_mu.v = [i \in 1..MaxWidth |-> R(0)]
  /\ heap[refs.g].prior_sigma.v = [i \in 1..MaxWidth |-> R(1)]

====
